---- MODULE Spec2Model ----
(***************************************************************************)
(* Model of scripts/apply_i18n_auto.py: the i18n checker that walks a      *)
(* fixed list of files, reports whether each one mentions useTranslation,  *)
(* extracts double-quoted literals with a regular expression, filters and  *)
(* deduplicates them, and previews the replacements known to TRANSLATIONS. *)
(*                                                                         *)
(* A text is a sequence of one-character strings.  A printed line is a     *)
(* record: kind says which print statement produced it, the other fields   *)
(* carry the values interpolated into it.                                  *)
(***************************************************************************)
EXTENDS Integers, Sequences, FiniteSets, TLC

VARIABLES fs, pc, i, out, strings

vars == <<fs, pc, i, out, strings>>

(***************************************************************************)
(* Characters and texts                                                    *)
(***************************************************************************)
DQ == "\""
BS == "\\"
NL == "\n"

\* The characters of a string literal, in order.
Chars(s) == [k \in 1..Len(s) |-> SubSeq(s, k, k)]

Range(s) == {s[k] : k \in 1..Len(s)}

Min(a, b) == IF a < b THEN a ELSE b

\* Python's  needle in text  for strings.
Contains(text, needle) ==
  \E p \in 0..(Len(text) - Len(needle)) :
    \A k \in 1..Len(needle) : text[p + k] = needle[k]

\* Python's  text.startswith(c)  for a one-character c.
StartsWith(text, c) == Len(text) >= 1 /\ text[1] = c

\* f'"{string}"'
Quoted(string) == <<DQ>> \o string \o <<DQ>>

\* The text between the surrounding double quotes of a candidate.
Interior(s) == SubSeq(s, 2, Len(s) - 1)

(***************************************************************************)
(* TRANSLATIONS                                                            *)
(***************************************************************************)
TranslationEntries ==
  { <<"\"Welcome Back\"", "t('auth.welcomeBack')">>,
    <<"\"Sign in to continue to Patrick Travel Services\"", "t('auth.signInToContinue')">>,
    <<"\"Create Account\"", "t('auth.createAccount')">>,
    <<"\"Sign up to get started with Patrick Travel Services\"", "t('auth.signUpToGetStarted')">>,
    <<"\"Email\"", "t('auth.email')">>,
    <<"\"Password\"", "t('auth.password')">>,
    <<"\"Confirm Password\"", "t('auth.confirmPassword')">>,
    <<"\"First Name\"", "t('auth.firstName')">>,
    <<"\"Last Name\"", "t('auth.lastName')">>,
    <<"\"Phone (Optional)\"", "t('auth.phoneOptional')">>,
    <<"\"Sign In\"", "t('auth.signIn')">>,
    <<"\"Sign Up\"", "t('auth.signUp')">>,
    <<"\"Remember me\"", "t('auth.rememberMe')">>,
    <<"\"Forgot Password?\"", "t('auth.forgotPassword')">>,
    <<"\"Don't have an account? \"", "t('auth.dontHaveAccount') + ' '">>,
    <<"\"Already have an account? \"", "t('auth.alreadyHaveAccount') + ' '">>,
    <<"\"Total Cases\"", "t('dashboard.totalCases')">>,
    <<"\"Active Cases\"", "t('dashboard.activeCases')">>,
    <<"\"Pending Documents\"", "t('dashboard.pendingDocuments')">>,
    <<"\"Unread Messages\"", "t('dashboard.unreadMessages')">>,
    <<"\"Quick Actions\"", "t('dashboard.quickActions')">>,
    <<"\"Submit New Case\"", "t('dashboard.submitNewCase')">>,
    <<"\"Upload Document\"", "t('dashboard.uploadDocument')">>,
    <<"\"View FAQs\"", "t('dashboard.viewFAQs')">>,
    <<"\"Search by reference number\"", "t('cases.searchByReference')">>,
    <<"\"No cases found\"", "t('cases.noCasesFound')">>,
    <<"\"Message Advisor\"", "t('cases.messageAdvisor')">>,
    <<"\"Status History\"", "t('cases.statusHistory')">>,
    <<"\"Loading...\"", "t('common.loading')">>,
    <<"\"Success\"", "t('common.success')">>,
    <<"\"Error\"", "t('common.error')">>,
    <<"\"OK\"", "t('common.ok')">>,
    <<"\"Cancel\"", "t('common.cancel')">>,
    <<"\"Save\"", "t('common.save')">>,
    <<"\"Delete\"", "t('common.delete')">> }

TRANSLATIONS ==
  [key \in {Chars(e[1]) : e \in TranslationEntries} |->
     (CHOOSE e \in TranslationEntries : Chars(e[1]) = key)[2]]

\* The marker looked for by check_file.
UseTranslation == Chars("useTranslation")

(***************************************************************************)
(* find_hardcoded_strings                                                  *)
(***************************************************************************)
\* ScanBody for the pattern "([^"]*)": a backslash is an ordinary character
\* and the match ends at the next double quote, escaped or not.
RECURSIVE ScanBodyNoEscape(_, _)
ScanBodyNoEscape(content, q) ==
  IF q > Len(content) THEN 0
  ELSE IF content[q] = DQ THEN q
  ELSE ScanBodyNoEscape(content, q + 1)

\* The pattern "([^"\\]*(\\.[^"\\]*)*)" after its opening quote, from
\* position q of content: the position of the closing quote, or 0 when the
\* pattern does not match.  [^"\\] takes any character but a quote or a
\* backslash; \\. takes a backslash and one character that is not a newline
\* (re.findall is called without re.DOTALL).  No character can be taken by
\* two parts of the pattern, so the scan never has a choice.
RECURSIVE ScanBody(_, _)
ScanBody(content, q) ==
  IF q > Len(content) THEN 0
  ELSE IF content[q] = DQ THEN q
  ELSE IF content[q] = BS
       THEN IF q + 1 <= Len(content) /\ content[q + 1] # NL
            THEN ScanBody(content, q + 2)
            ELSE 0
  ELSE ScanBody(content, q + 1)

\* The matches re.findall(pattern, content) finds from position p on, as
\* <<position of the opening quote, position of the closing quote>>: the
\* leftmost match first, the search resuming after each match, and one
\* position further where the pattern does not match.
RECURSIVE FindSpans(_, _)
FindSpans(content, p) ==
  IF p > Len(content) THEN <<>>
  ELSE LET e == IF content[p] = DQ THEN ScanBody(content, p + 1) ELSE 0
       IN  IF e # 0
           THEN <<(<<p, e>>)>> \o FindSpans(content, e + 1)
           ELSE FindSpans(content, p + 1)

Spans(content) == FindSpans(content, 1)

\* matches: group 1 of every match (match[0] of the tuples findall returns
\* for a pattern with two groups).
Matches(content) ==
  LET sp == Spans(content)
  IN  [j \in 1..Len(sp) |-> SubSeq(content, sp[j][1] + 1, sp[j][2] - 1)]

MinLen == 2

\* IsUIString with >= for >.
IsUIStringAtLeast(string) ==
  /\ Len(string) >= MinLen
  /\ ~StartsWith(string, "/")
  /\ ~StartsWith(string, "#")

\* IsUIString without the test for a leading '#'.
IsUIStringNoHash(string) ==
  /\ Len(string) > MinLen
  /\ ~StartsWith(string, "/")

\* The filter of the loop over matches.
IsUIString(string) ==
  /\ Len(string) > MinLen
  /\ ~StartsWith(string, "/")
  /\ ~StartsWith(string, "#")

\* ui_strings: the matches that pass the filter, quoted again, in order.
RECURSIVE FilterQuote(_)
FilterQuote(matches) ==
  IF matches = <<>> THEN <<>>
  ELSE (IF IsUIString(Head(matches)) THEN <<Quoted(Head(matches))>> ELSE <<>>)
       \o FilterQuote(Tail(matches))

UIStrings(content) == FilterQuote(Matches(content))

\* All the lists that enumerate the set S once each.
RECURSIVE Orderings(_)
Orderings(S) ==
  IF S = {} THEN {<<>>}
  ELSE UNION {{<<x>> \o rest : rest \in Orderings(S \ {x})} : x \in S}

\* ListOfSet without the set: the list as it was built.
ListKeepDuplicates(ui_strings) == {ui_strings}

\* list(set(ui_strings)): the iteration order of a set of strings is not
\* fixed (string hashing is randomised per process), so every order is a
\* possible result.
ListOfSet(ui_strings) == Orderings(Range(ui_strings))

\* The lists find_hardcoded_strings may return for a file with this text.
FindHardcodedStrings(content) == ListOfSet(UIStrings(content))

(***************************************************************************)
(* Printed lines                                                           *)
(***************************************************************************)
Line(kind, path, n, cand, repl) ==
  [kind |-> kind, path |-> path, n |-> n, cand |-> cand, repl |-> repl]

BannerLine        == Line("banner", "", 0, <<>>, "")
RuleLine          == Line("rule", "", 0, <<>>, "")
HeaderLine(path)  == Line("header", path, 0, <<>>, "")
MissingImportLine == Line("missingImport", "", 0, <<>>, "")
MissingHookLine   == Line("missingHook", "", 0, <<>>, "")
ImportedLine      == Line("imported", "", 0, <<>>, "")
FoundLine(n)      == Line("found", "", n, <<>>, "")
SuggestionLine(s, repl) == Line("suggestion", "", 0, s, repl)
CompleteLine      == Line("complete", "", 0, <<>>, "")
GuideLine         == Line("guide", "", 0, <<>>, "")

(***************************************************************************)
(* check_file                                                              *)
(***************************************************************************)
\* MarkerLines with the second print of the missing branch left out.
MarkerLinesImportOnly(content) ==
  IF ~Contains(content, UseTranslation)
  THEN <<MissingImportLine>>
  ELSE <<ImportedLine>>

\* if 'useTranslation' not in content: ... else: ...
MarkerLines(content) ==
  IF ~Contains(content, UseTranslation)
  THEN <<MissingImportLine, MissingHookLine>>
  ELSE <<ImportedLine>>

PreviewLimit == 5

\* Preview without the slice.
PreviewAll(strs) == strs

\* strings[:5]
Preview(strs) == SubSeq(strs, 1, Min(PreviewLimit, Len(strs)))

\* s.rstrip() inside the quotes.
RECURSIVE RStrip(_)
RStrip(t) ==
  IF t # <<>> /\ t[Len(t)] = " " THEN RStrip(SubSeq(t, 1, Len(t) - 1)) ELSE t

\* SuggestionLines with the candidate stripped of trailing spaces before
\* it is looked up.
RECURSIVE SuggestionLinesStripped(_)
SuggestionLinesStripped(list) ==
  IF list = <<>> THEN <<>>
  ELSE LET key == Quoted(RStrip(Interior(Head(list))))
       IN  (IF key \in DOMAIN TRANSLATIONS
            THEN <<SuggestionLine(Head(list), TRANSLATIONS[key])>>
            ELSE <<>>)
           \o SuggestionLinesStripped(Tail(list))

\* for s in ...: if s in TRANSLATIONS: print(s, TRANSLATIONS[s])
RECURSIVE SuggestionLines(_)
SuggestionLines(list) ==
  IF list = <<>> THEN <<>>
  ELSE (IF Head(list) \in DOMAIN TRANSLATIONS
        THEN <<SuggestionLine(Head(list), TRANSLATIONS[Head(list)])>>
        ELSE <<>>)
       \o SuggestionLines(Tail(list))

\* StringsLines without the  if strings:  test.
StringsLinesAlways(strs) ==
  <<FoundLine(Len(strs))>> \o SuggestionLines(Preview(strs))

\* if strings: print the count, then the preview
StringsLines(strs) ==
  IF strs # <<>>
  THEN <<FoundLine(Len(strs))>> \o SuggestionLines(Preview(strs))
  ELSE <<>>

\* Everything check_file prints for a file it can read.
ReportLines(path, content, strs) ==
  <<HeaderLine(path)>> \o MarkerLines(content) \o StringsLines(strs)

(***************************************************************************)
(* The file list and the file system the script runs against               *)
(***************************************************************************)
files ==
  << "features/auth/screens/RegisterScreen.tsx",
     "features/auth/screens/ForgotPasswordScreen.tsx",
     "app/(tabs)/index.tsx",
     "app/(tabs)/cases.tsx",
     "app/(tabs)/documents.tsx",
     "app/(tabs)/messages.tsx",
     "app/(tabs)/profile.tsx" >>

NumFiles == Len(files)

\* What the script can find at a path: nothing (os.path.exists is false), a
\* text file, or something that exists but that open() or read() rejects (a
\* directory, a file without read permission, bytes that are not UTF-8).
MissingFile    == [kind |-> "missing", content |-> <<>>]
UnreadableFile == [kind |-> "unreadable", content |-> <<>>]
TextFile(c)    == [kind |-> "file", content |-> c]

\* Longest text of the exhaustive part of the inputs.
MaxLen == 5

Alphabet == {DQ, BS, "/", "#", "a", NL}

\* Every text over Alphabet of at most MaxLen characters.
ShortTexts == UNION {[1..n -> Alphabet] : n \in 0..MaxLen}

\* A translation key alone in a file, for every key.
KeyTexts == DOMAIN TRANSLATIONS

\* Candidates one edit away from a short key: a character of the interior
\* replaced, a character inserted anywhere in it, a character dropped.
VariantChars == {" ", "s", "K", "x"}

MaxVariantKeyLen == 7

VariantsOf(key) ==
  LET t == Interior(key)
      n == Len(t)
  IN  {Quoted(SubSeq(t, 1, k - 1) \o <<c>> \o SubSeq(t, k + 1, n)) :
         k \in 1..n, c \in VariantChars}
      \cup
      {Quoted(SubSeq(t, 1, k) \o <<c>> \o SubSeq(t, k + 1, n)) :
         k \in 0..n, c \in VariantChars}
      \cup
      {Quoted(SubSeq(t, 1, k - 1) \o SubSeq(t, k + 1, n)) : k \in 1..n}

VariantTexts ==
  UNION {VariantsOf(key) :
           key \in {k \in DOMAIN TRANSLATIONS : Len(k) <= MaxVariantKeyLen}}

WelcomeTwice == Chars("const x = \"Welcome Back\"; const y = \"Welcome Back\";")
ImportOnly   == Chars("import { useTranslation } from 'react-i18next';")
SheSaid      == Chars("x = \"She said \\\"hi\\\"\";")
Continued    == Chars("\"Sa\\\nve\" + \"Save\"")
ManyLiterals ==
  Chars("f(\"Save\", \"abc\", \"Delete\", \"x y z\", \"Cancel\", \"Error\", \"Save\", \"OK\", \"/api\", \"#fff\")")

SampleTexts ==
  { WelcomeTwice, ImportOnly, SheSaid, Continued, ManyLiterals,
    Chars("const { t } = useTranslation(); x = \"Save\";"),
    Chars("label = \"useTranslation\""),
    Chars("usetranslation \"Email\""),
    Chars("useTranslatio n \"OK\" \"Ok!\""),
    Chars("\"Welcome Back \" \"welcome back\" \"Welcome Back\" \" Welcome Back\"") }

WideTexts == ShortTexts \cup KeyTexts \cup VariantTexts \cup SampleTexts

\* File systems in which every path is one of a few things ...
NarrowStates ==
  {MissingFile, UnreadableFile, TextFile(WelcomeTwice), TextFile(ImportOnly)}

\* ... and file systems in which only the last path exists, with any of
\* the texts above.
FileSystems ==
  [1..NumFiles -> NarrowStates]
  \cup
  {[k \in 1..NumFiles |-> IF k = NumFiles THEN TextFile(c) ELSE MissingFile] :
     c \in WideTexts}

(***************************************************************************)
(* The run                                                                 *)
(***************************************************************************)
Init ==
  /\ fs \in FileSystems
  /\ pc = "start"
  /\ i = 1
  /\ out = <<>>
  /\ strings = [k \in 1..NumFiles |-> <<>>]

\* The two prints before the loop.
Banner ==
  /\ pc = "start"
  /\ out' = out \o <<BannerLine, RuleLine>>
  /\ pc' = "loop"
  /\ UNCHANGED <<fs, i, strings>>

\* CheckFileMissing without the os.path.exists test: the header is printed
\* and open() raises FileNotFoundError.
CheckFileNoExistsTest ==
  /\ pc = "loop"
  /\ i <= NumFiles
  /\ fs[i].kind = "missing"
  /\ out' = out \o <<HeaderLine(files[i])>>
  /\ pc' = "aborted"
  /\ UNCHANGED <<fs, i, strings>>

\* check_file on a path for which os.path.exists is false.
CheckFileMissing ==
  /\ pc = "loop"
  /\ i <= NumFiles
  /\ fs[i].kind = "missing"
  /\ i' = i + 1
  /\ UNCHANGED <<fs, pc, out, strings>>

\* CheckFileUnreadable with the exception swallowed before anything is
\* printed.
CheckFileUnreadableSkipped ==
  /\ pc = "loop"
  /\ i <= NumFiles
  /\ fs[i].kind = "unreadable"
  /\ i' = i + 1
  /\ UNCHANGED <<fs, pc, out, strings>>

\* check_file on a path that exists but cannot be opened and read as text:
\* the header is already printed when open() or read() raises, and nothing
\* catches the exception.
CheckFileUnreadable ==
  /\ pc = "loop"
  /\ i <= NumFiles
  /\ fs[i].kind = "unreadable"
  /\ out' = out \o <<HeaderLine(files[i])>>
  /\ pc' = "aborted"
  /\ UNCHANGED <<fs, i, strings>>

\* check_file on a text file.
CheckFileReport ==
  /\ pc = "loop"
  /\ i <= NumFiles
  /\ fs[i].kind = "file"
  /\ \E strs \in FindHardcodedStrings(fs[i].content) :
       /\ strings' = [strings EXCEPT ![i] = strs]
       /\ out' = out \o ReportLines(files[i], fs[i].content, strs)
  /\ i' = i + 1
  /\ UNCHANGED <<fs, pc>>

\* The two prints after the loop.
Complete ==
  /\ pc = "loop"
  /\ i > NumFiles
  /\ out' = out \o <<CompleteLine, GuideLine>>
  /\ pc' = "done"
  /\ UNCHANGED <<fs, i, strings>>

Next ==
  \/ Banner
  \/ CheckFileMissing
  \/ CheckFileUnreadable
  \/ CheckFileReport
  \/ Complete

Spec == Init /\ [][Next]_vars

(***************************************************************************)
(* Reading the output back                                                 *)
(***************************************************************************)
\* Path k has a header line in the output.
Reported(k) == \E p \in 1..Len(out) : out[p] = HeaderLine(files[k])

\* check_file returned normally for path k after reading it.
Read(k) == k < i /\ fs[k].kind = "file"

HeaderPos(k) == CHOOSE p \in 1..Len(out) : out[p] = HeaderLine(files[k])

\* The lines from the header of path k up to the next header or the
\* completion banner.
Section(k) ==
  LET h == HeaderPos(k)
      stops == {q \in (h + 1)..Len(out) : out[q].kind \in {"header", "complete"}}
      e == IF stops = {} THEN Len(out)
           ELSE (CHOOSE q \in stops : \A r \in stops : q <= r) - 1
  IN  SubSeq(out, h, e)

Has(sec, line) == \E p \in 1..Len(sec) : sec[p] = line

HasKind(sec, kind) == \E p \in 1..Len(sec) : sec[p].kind = kind

\* The suggestion lines of a section, in order.
Suggestions(sec) == SelectSeq(sec, LAMBDA l : l.kind = "suggestion")

TypeOK ==
  /\ pc \in {"start", "loop", "done", "aborted"}
  /\ i \in 1..(NumFiles + 1)
  /\ fs \in FileSystems

HasMarkerAt(text, p) == SubSeq(text, p, p + Len(UseTranslation) - 1) = UseTranslation

HasMarker(text) ==
  \E p \in 1..(Len(text) - Len(UseTranslation) + 1) : HasMarkerAt(text, p)

\* C2: a file whose text lacks 'useTranslation' has both Missing lines and
\* not the imported line; a file whose text has it anywhere has neither
\* Missing line; no section has one Missing line without the other.
C2_MarkerLines ==
  /\ \A k \in 1..NumFiles : Read(k) =>
       LET sec == Section(k)
       IN  /\ ~HasMarker(fs[k].content)
                => /\ Has(sec, MissingImportLine)
                   /\ Has(sec, MissingHookLine)
                   /\ ~Has(sec, ImportedLine)
           /\ HasMarker(fs[k].content)
                => /\ ~Has(sec, MissingImportLine)
                   /\ ~Has(sec, MissingHookLine)
  /\ \A k \in 1..NumFiles : Reported(k) =>
       (Has(Section(k), MissingImportLine) <=> Has(Section(k), MissingHookLine))

\* One run that reported a file without the marker and a file with it.
C2_Witness ==
  \E k, l \in 1..NumFiles :
    /\ Read(k) /\ ~HasMarker(fs[k].content)
    /\ Has(Section(k), MissingImportLine) /\ Has(Section(k), MissingHookLine)
    /\ Read(l) /\ HasMarker(fs[l].content)
    /\ Has(Section(l), ImportedLine)

\* C3: no element of the list find_hardcoded_strings returns has an
\* interior of length 2 or less or one that begins with '/' or '#', and
\* every raw match longer than 2 that begins with neither is in the list.
C3_FilterExact ==
  \A k \in 1..NumFiles : Read(k) =>
    /\ \A s \in Range(strings[k]) :
         /\ s[1] = DQ /\ s[Len(s)] = DQ
         /\ Len(s) - 2 > 2
         /\ s[2] \notin {"/", "#"}
    /\ \A m \in Range(Matches(fs[k].content)) :
         (Len(m) > 2 /\ m[1] \notin {"/", "#"})
           => Quoted(m) \in Range(strings[k])

\* A file with a match of two characters, one that begins with '/', one
\* that begins with '#', and matches that are kept.
C3_Witness ==
  \E k \in 1..NumFiles :
    /\ Read(k)
    /\ \E m \in Range(Matches(fs[k].content)) : Len(m) = 2
    /\ \E m \in Range(Matches(fs[k].content)) : Len(m) > 2 /\ m[1] = "/"
    /\ \E m \in Range(Matches(fs[k].content)) : Len(m) > 2 /\ m[1] = "#"
    /\ strings[k] # <<>>
    /\ Len(strings[k]) < Len(Matches(fs[k].content))

\* The number of backslashes that stand directly before position q, not
\* counting anything at or before the opening quote at p.
RECURSIVE BackslashRun(_, _, _)
BackslashRun(text, p, q) ==
  IF q - 1 > p /\ text[q - 1] = BS
  THEN 1 + BackslashRun(text, p, q - 1)
  ELSE 0

\* Position q is the second character of an escaped unit of the literal
\* opened at p: an odd number of backslashes stands before it.
Escaped(text, p, q) == BackslashRun(text, p, q) % 2 = 1

\* The double quotes after p that are not part of an escaped unit.
ClosingQuotes(text, p) ==
  {e \in (p + 1)..Len(text) : text[e] = DQ /\ ~Escaped(text, p, e)}

FirstClosingQuote(text, p) ==
  CHOOSE e \in ClosingQuotes(text, p) : \A r \in ClosingQuotes(text, p) : e <= r

\* A backslash of the literal p..e is followed by a newline.
EscapedNewline(text, p, e) ==
  \E q \in (p + 1)..(e - 1) : text[q] = NL /\ Escaped(text, p, q)

\* The double quotes at which the search tries the pattern: those that
\* are not inside or at the end of one of the matches.
OpeningQuotes(text, spans) ==
  {p \in 1..Len(text) :
     /\ text[p] = DQ
     /\ ~\E j \in 1..Len(spans) : spans[j][1] < p /\ p <= spans[j][2]}

SheSaidInterior == Chars("She said \\\"hi\\\"")

\* C4 as stated: a backslash and ANY following character are one unit, so
\* every opening quote that has a later unescaped quote starts a literal
\* that ends at the first one.
C4_AnyCharacterEscaped ==
  \A k \in 1..NumFiles : Read(k) =>
    LET text == fs[k].content
        spans == Spans(text)
    IN  \A p \in OpeningQuotes(text, spans) :
          IF ClosingQuotes(text, p) # {}
          THEN <<p, FirstClosingQuote(text, p)>> \in Range(spans)
          ELSE ~\E sp \in Range(spans) : sp[1] = p

\* C4, amended: a backslash and a following character other than a newline
\* are one unit.  An opening quote starts a literal exactly when a later
\* unescaped quote exists and no backslash before it is followed by a
\* newline; the literal then ends at the first unescaped quote, never at an
\* escaped one.  The text "She said \"hi\"" is extracted whole.
C4_EscapedUnits ==
  \A k \in 1..NumFiles : Read(k) =>
    LET text == fs[k].content
        spans == Spans(text)
    IN  /\ \A p \in OpeningQuotes(text, spans) :
             IF /\ ClosingQuotes(text, p) # {}
                /\ ~EscapedNewline(text, p, FirstClosingQuote(text, p))
             THEN <<p, FirstClosingQuote(text, p)>> \in Range(spans)
             ELSE ~\E sp \in Range(spans) : sp[1] = p
        /\ \A sp \in Range(spans) :
             /\ sp[1] \in OpeningQuotes(text, spans)
             /\ ~Escaped(text, sp[1], sp[2])
        /\ text = SheSaid => strings[k] = <<Quoted(SheSaidInterior)>>

\* The file with "She said \"hi\"" was read and the literal extracted whole.
C4_Witness ==
  \E k \in 1..NumFiles :
    /\ Read(k)
    /\ fs[k].content = SheSaid
    /\ Matches(SheSaid) = <<SheSaidInterior>>
    /\ strings[k] = <<Quoted(SheSaidInterior)>>

WelcomeBackKey == Chars("\"Welcome Back\"")
OKKey          == Chars("\"OK\"")

\* C5: a suggestion line is printed only for a candidate that is, quotes
\* included, equal to a key of TRANSLATIONS, with that key's value as the
\* replacement; a candidate that is not a key gets no line.
C5_ExactLookup ==
  /\ \A p \in 1..Len(out) :
       (out[p].kind = "suggestion")
         => \E e \in TranslationEntries :
              /\ out[p].cand = Chars(e[1])
              /\ out[p].repl = e[2]
  /\ \A k \in 1..NumFiles : Read(k) =>
       \A s \in Range(strings[k]) :
         (s \notin DOMAIN TRANSLATIONS)
           => ~\E p \in 1..Len(Section(k)) : Section(k)[p].cand = s

\* A file with the key "Welcome Back" and three candidates one edit away
\* from it: only the key has a suggestion line.
C5_Witness ==
  \E k \in 1..NumFiles :
    /\ Read(k)
    /\ Len(strings[k]) = 4
    /\ Quoted(Chars("Welcome Back ")) \in Range(strings[k])
    /\ Quoted(Chars("welcome back")) \in Range(strings[k])
    /\ Suggestions(Section(k)) = <<SuggestionLine(WelcomeBackKey, "t('auth.welcomeBack')")>>

\* The distinct literals of a text that pass the filter, quoted.
DistinctFiltered(text) ==
  {Quoted(m) : m \in {x \in Range(Matches(text)) :
                        Len(x) > 2 /\ x[1] \notin {"/", "#"}}}

\* C6: the list find_hardcoded_strings returns has no two equal elements,
\* and the N of the 'Found N' line is the number of distinct filtered
\* literals of the file: a literal that occurs twice is counted once.
C6_Deduplicated ==
  \A k \in 1..NumFiles : Read(k) =>
    /\ \A a, b \in 1..Len(strings[k]) :
         (a # b) => strings[k][a] # strings[k][b]
    /\ Range(strings[k]) = DistinctFiltered(fs[k].content)
    /\ \A p \in 1..Len(Section(k)) :
         (Section(k)[p].kind = "found")
           => Section(k)[p].n = Cardinality(DistinctFiltered(fs[k].content))

\* The file with "Welcome Back" twice: two matches, a count of 1.
C6_Witness ==
  \E k \in 1..NumFiles :
    /\ Read(k)
    /\ fs[k].content = WelcomeTwice
    /\ Len(Matches(fs[k].content)) = 2
    /\ Has(Section(k), FoundLine(1))

\* C7: the suggestion lines of a file are one line for each of the first
\* five elements of the returned list that is a key, in that order: at
\* most five, nothing for a candidate that is not a key, every key when
\* the list has five elements or fewer, and the single Welcome Back line
\* for the file that has "Welcome Back" twice.
C7_PreviewOfFive ==
  \A k \in 1..NumFiles : Read(k) =>
    LET sec    == Section(k)
        first  == SubSeq(strings[k], 1, Min(5, Len(strings[k])))
        mapped == SelectSeq(first, LAMBDA s : s \in DOMAIN TRANSLATIONS)
    IN  /\ Suggestions(sec) =
             [j \in 1..Len(mapped) |->
                SuggestionLine(mapped[j], TRANSLATIONS[mapped[j]])]
        /\ Len(Suggestions(sec)) <= 5
        /\ \A p \in 1..Len(sec) :
             sec[p].kind \in {"header", "missingImport", "missingHook",
                              "imported", "found", "suggestion"}
        /\ Len(strings[k]) <= 5
             => \A s \in Range(strings[k]) \cap DOMAIN TRANSLATIONS :
                  Has(sec, SuggestionLine(s, TRANSLATIONS[s]))
        /\ fs[k].content = WelcomeTwice
             => Suggestions(sec) =
                  <<SuggestionLine(WelcomeBackKey, "t('auth.welcomeBack')")>>

\* A file with six distinct candidates whose sixth is a key: that key has
\* no suggestion line.
C7_Witness ==
  \E k \in 1..NumFiles :
    /\ Read(k)
    /\ Len(strings[k]) = 6
    /\ strings[k][6] \in DOMAIN TRANSLATIONS
    /\ ~\E p \in 1..Len(Section(k)) : Section(k)[p].cand = strings[k][6]
    /\ Len(Suggestions(Section(k))) = 3

\* The number of marker lines of a text: one when it has the marker, two
\* when it has not.
MarkerCount(text) == IF HasMarker(text) THEN 1 ELSE 2

HeaderAndMarkers(k, sec) ==
  /\ Len(sec) >= 1 + MarkerCount(fs[k].content)
  /\ sec[1] = HeaderLine(files[k])
  /\ IF HasMarker(fs[k].content)
     THEN sec[2] = ImportedLine
     ELSE sec[2] = MissingImportLine /\ sec[3] = MissingHookLine

\* C8 as stated: the section of every file that is read has the path line,
\* the marker line(s) and then the count line, also when the count is 0.
C8_CountLineAlways ==
  \A k \in 1..NumFiles : Read(k) =>
    LET sec == Section(k)
        m   == MarkerCount(fs[k].content)
    IN  /\ HeaderAndMarkers(k, sec)
        /\ Len(sec) >= m + 2
        /\ sec[m + 2] = FoundLine(Cardinality(DistinctFiltered(fs[k].content)))

\* C8, amended: the section of every file that is read has the path line,
\* then the marker line(s), then, when the file has at least one distinct
\* filtered candidate, the count line with their number; when it has none
\* the section ends after the marker line(s) and has no count line.
C8_CountLineWhenNonZero ==
  \A k \in 1..NumFiles : Read(k) =>
    LET sec == Section(k)
        m   == MarkerCount(fs[k].content)
        n   == Cardinality(DistinctFiltered(fs[k].content))
    IN  /\ HeaderAndMarkers(k, sec)
        /\ n > 0 => /\ Len(sec) >= m + 2
                    /\ sec[m + 2] = FoundLine(n)
                    /\ \A p \in 1..Len(sec) : (sec[p].kind = "found") => p = m + 2
        /\ n = 0 => Len(sec) = m + 1

\* One run that read a file without candidates, which has no count line,
\* and a file with candidates, which has one.
C8_Witness ==
  \E k, l \in 1..NumFiles :
    /\ Read(k)
    /\ strings[k] = <<>>
    /\ ~HasKind(Section(k), "found")
    /\ Read(l)
    /\ HasKind(Section(l), "found")

\* C9 as stated: a path that is missing, or that exists but cannot be read
\* as text, is skipped silently: no header line for it, and no error.
C9_UnreadableSkipped ==
  \A k \in 1..NumFiles :
    (fs[k].kind \in {"missing", "unreadable"})
      => (~Reported(k) /\ ~(pc = "aborted" /\ i = k))

\* C9, amended: a path that does not exist is skipped with no output and
\* no error.  A path that exists but cannot be opened and read as text is
\* never skipped: its header line is printed, the exception then ends the
\* run there, and neither a later path nor the completion banner follows.
C9_UnreadableAborts ==
  /\ \A k \in 1..NumFiles : (fs[k].kind = "missing") => ~Reported(k)
  /\ \A k \in 1..NumFiles : (fs[k].kind = "unreadable") => k >= i
  /\ \A k \in 1..NumFiles :
       (fs[k].kind = "unreadable" /\ Reported(k))
         => /\ pc = "aborted"
            /\ i = k
            /\ out[Len(out)] = HeaderLine(files[k])
  /\ (pc = "aborted") => (fs[i].kind = "unreadable" /\ Reported(i))
  /\ (pc = "done") => \A k \in 1..NumFiles : fs[k].kind # "unreadable"

\* A run ended by an unreadable path, after a missing path and a file that
\* was reported, with paths left unprocessed.
C9_Witness ==
  /\ pc = "aborted"
  /\ i < NumFiles
  /\ out[Len(out)] = HeaderLine(files[i])
  /\ \E k, l \in 1..(i - 1) : fs[k].kind = "missing" /\ Read(l)

\* C10: a suggestion line is printed only for a key whose interior is
\* longer than 2 and begins with neither '/' nor '#'; the key "OK" is
\* never printed, and every other key is printed for the file that
\* consists of that key.
C10_OKNeverSuggested ==
  /\ \A p \in 1..Len(out) :
       (out[p].kind = "suggestion")
         => /\ out[p].cand # OKKey
            /\ Len(out[p].cand) - 2 > 2
            /\ out[p].cand[2] \notin {"/", "#"}
  /\ \A k \in 1..NumFiles : Read(k) =>
       \A key \in DOMAIN TRANSLATIONS :
         (fs[k].content = key /\ key # OKKey)
           => Has(Section(k), SuggestionLine(key, TRANSLATIONS[key]))

\* The file that consists of "OK" was read: its literal was matched, and
\* neither counted nor suggested.
C10_Witness ==
  \E k \in 1..NumFiles :
    /\ Read(k)
    /\ fs[k].content = OKKey
    /\ Matches(fs[k].content) = <<Chars("OK")>>
    /\ strings[k] = <<>>
    /\ ~HasKind(Section(k), "suggestion")

====
